---- MODULE Spec2Model ----
(***************************************************************************)
(* A model of the financial-metrics extraction core:                       *)
(*   src/data/utils.py  extract_important_metrics and its safe_float       *)
(*   src/utils.py       extract_metrics, fallback_extraction,              *)
(*                      string_to_dict                                     *)
(* Text is modelled by TLA+ strings (character sequences); Python values   *)
(* are tagged records; a raised exception is the outcome                   *)
(* [t |-> "raise", exc |-> <class name>].                                  *)
(***************************************************************************)
EXTENDS Integers, Sequences, FiniteSets, TLC

VARIABLES
    \* safe_float called on one value cell
    value, sfResult,
    \* extract_important_metrics(data)
    hasLiq, nLiq, hasAfter, nAfter, tpc, rowsRead, metrics, lastTable, lastRow,
    lastMetrics, tOutcome,
    \* extract_metrics(response)
    response, input_text, llm, epc, eResult, llmCalls, fallbackRuns,
    \* string_to_dict(input_str)
    input_str, sResult, sLogged,
    \* format_text_content(text); part_lines records, for each element of
    \* html_parts, the stripped line whose pass appended it
    text, fpc, lines, in_ul, in_ol, html_parts, part_lines, fResult

floatVars   == <<value, sfResult>>
tableVars   == <<hasLiq, nLiq, hasAfter, nAfter, tpc, rowsRead, metrics, lastTable,
                 lastRow, lastMetrics, tOutcome>>
extractVars == <<response, input_text, llm, epc, eResult, llmCalls, fallbackRuns>>
parseVars   == <<input_str, sResult, sLogged>>
formatVars  == <<text, fpc, lines, in_ul, in_ol, html_parts, part_lines, fResult>>
vars        == <<floatVars, tableVars, extractVars, parseVars, formatVars>>

----------------------------------------------------------------------------
(* Python values and outcomes *)

None        == [t |-> "None"]
Pending     == [t |-> "pending"]
Raise(exc)  == [t |-> "raise", exc |-> exc]
IsRaise(r)  == r.t = "raise"
\* A finite float is the decimal m * 10^e, m not divisible by 10 (0 is m = 0, e = 0).
\* Binary rounding of the IEEE double is not modelled.
Float(m, e) == [t |-> "float", m |-> m, e |-> e]
Inf(neg)    == [t |-> "inf", neg |-> neg]
NaN         == [t |-> "nan"]
IsFloat(r)  == r.t \in {"float", "inf", "nan"}

----------------------------------------------------------------------------
(* str operations *)

Ch(s, i) == SubSeq(s, i, i)

Digits     == {"0", "1", "2", "3", "4", "5", "6", "7", "8", "9"}
Whitespace == {" ", "\t", "\n", "\r"}
LowerCase  == "abcdefghijklmnopqrstuvwxyz"
UpperCase  == "ABCDEFGHIJKLMNOPQRSTUVWXYZ"

IndexIn(c, alphabet) ==
    IF \E i \in 1..Len(alphabet) : Ch(alphabet, i) = c
    THEN CHOOSE i \in 1..Len(alphabet) : Ch(alphabet, i) = c
    ELSE 0

UpperLetters == {Ch(UpperCase, i) : i \in 1..Len(UpperCase)}
LowerLetters == {Ch(LowerCase, i) : i \in 1..Len(LowerCase)}
LowerCh(c) == IF c \in UpperLetters THEN Ch(LowerCase, IndexIn(c, UpperCase)) ELSE c
UpperCh(c) == IF c \in LowerLetters THEN Ch(UpperCase, IndexIn(c, LowerCase)) ELSE c
IsLetter(c) == c \in LowerLetters \/ c \in UpperLetters

RECURSIVE Lower(_)
\* str.lower()
Lower(s) == IF s = "" THEN "" ELSE LowerCh(Ch(s, 1)) \o Lower(SubSeq(s, 2, Len(s)))

\* `sub in s`
Contains(sub, s) ==
    \E i \in 1..(Len(s) - Len(sub) + 1) : SubSeq(s, i, i + Len(sub) - 1) = sub

\* s.find(sub) + 1 (0 when sub does not occur)
Find(sub, s) ==
    IF Contains(sub, s)
    THEN CHOOSE i \in 1..(Len(s) - Len(sub) + 1) :
            /\ SubSeq(s, i, i + Len(sub) - 1) = sub
            /\ \A j \in 1..(i - 1) : SubSeq(s, j, j + Len(sub) - 1) # sub
    ELSE 0

RECURSIVE Replace(_, _, _)
\* s.replace(old, new), old non-empty
Replace(s, old, new) ==
    LET i == Find(old, s) IN
    IF i = 0 THEN s
    ELSE SubSeq(s, 1, i - 1) \o new \o Replace(SubSeq(s, i + Len(old), Len(s)), old, new)

RECURSIVE Split(_, _)
\* s.split(sep): the list of the segments between the occurrences of sep
Split(s, sep) ==
    LET i == Find(sep, s) IN
    IF i = 0 THEN <<s>>
    ELSE <<SubSeq(s, 1, i - 1)>> \o Split(SubSeq(s, i + Len(sep), Len(s)), sep)

RECURSIVE LStrip(_)
LStrip(s) == IF s # "" /\ Ch(s, 1) \in Whitespace THEN LStrip(SubSeq(s, 2, Len(s))) ELSE s
RECURSIVE RStrip(_)
RStrip(s) ==
    IF s # "" /\ Ch(s, Len(s)) \in Whitespace THEN RStrip(SubSeq(s, 1, Len(s) - 1)) ELSE s
\* str.strip()
Strip(s) == RStrip(LStrip(s))

----------------------------------------------------------------------------
(* float(str): the grammar of Python's float constructor *)

DigitVal(c) == IndexIn(c, "123456789")

RECURSIVE DigitsVal(_)
\* the integer written by a digit string (underscores already removed)
DigitsVal(s) ==
    IF s = "" THEN 0
    ELSE 10 * DigitsVal(SubSeq(s, 1, Len(s) - 1)) + DigitVal(Ch(s, Len(s)))

\* digitpart ::= digit (["_"] digit)*
IsDigitPart(p) ==
    /\ p # ""
    /\ Ch(p, 1) \in Digits
    /\ Ch(p, Len(p)) \in Digits
    /\ \A i \in 1..Len(p) : Ch(p, i) \in Digits \cup {"_"}
    /\ \A i \in 1..(Len(p) - 1) : ~(Ch(p, i) = "_" /\ Ch(p, i + 1) = "_")

RECURSIVE Normalize(_, _)
Normalize(m, e) ==
    IF m = 0 THEN Float(0, 0)
    ELSE IF m % 10 = 0 THEN Normalize(m \div 10, e + 1)
    ELSE Float(m, e)

HasSign(s) == s # "" /\ Ch(s, 1) \in {"+", "-"}
Unsigned(s) == IF HasSign(s) THEN SubSeq(s, 2, Len(s)) ELSE s
Negative(s) == s # "" /\ Ch(s, 1) = "-"

\* float(s) for a str s: the float it denotes, or ValueError
PyFloat(s) ==
    LET t    == Strip(s)
        neg  == Negative(t)
        body == Unsigned(t)
        low  == Lower(body)
        ePos == Find("e", low)
        mant == IF ePos = 0 THEN body ELSE SubSeq(body, 1, ePos - 1)
        expo == IF ePos = 0 THEN "" ELSE SubSeq(body, ePos + 1, Len(body))
        dot  == Find(".", mant)
        ip   == IF dot = 0 THEN mant ELSE SubSeq(mant, 1, dot - 1)
        fp   == IF dot = 0 THEN "" ELSE SubSeq(mant, dot + 1, Len(mant))
        mantOk == /\ ip = "" \/ IsDigitPart(ip)
                  /\ fp = "" \/ IsDigitPart(fp)
                  /\ ip # "" \/ fp # ""
        expOk  == ePos = 0 \/ IsDigitPart(Unsigned(expo))
        fd   == Replace(fp, "_", "")
        m    == DigitsVal(Replace(ip, "_", "") \o fd)
        ev   == IF ePos = 0 THEN 0
                ELSE (IF Negative(expo) THEN -1 ELSE 1)
                     * DigitsVal(Replace(Unsigned(expo), "_", ""))
    IN  IF low \in {"inf", "infinity"} THEN Inf(neg)
        ELSE IF low = "nan" THEN NaN
        ELSE IF mantOk /\ expOk
             THEN Normalize((IF neg THEN -1 ELSE 1) * m, ev - Len(fd))
             ELSE Raise("ValueError")

----------------------------------------------------------------------------
(* safe_float, src/data/utils.py:19-27 *)

\* Mutant: value.split('&')[0]
SecondSegment_First(v) == [t |-> "str", s |-> Split(v, "&")[1]]

\* value.split('&')[1]: the second element of the list, IndexError when there is none
SecondSegment(v) ==
    LET parts == Split(v, "&") IN
    IF Len(parts) < 2 THEN Raise("IndexError") ELSE [t |-> "str", s |-> parts[2]]

\* The try body: the float of the candidate with its commas removed
safe_float_body(v) ==
    IF Contains("&", v)
    THEN LET seg == SecondSegment(v) IN
         IF IsRaise(seg) THEN seg ELSE PyFloat(Replace(seg.s, ",", ""))
    ELSE PyFloat(Replace(v, ",", ""))

\* Mutant: the handler returns 0.0 instead of None
safe_float_ZeroDefault(v) ==
    LET r == safe_float_body(v) IN
    IF IsRaise(r) /\ r.exc \in {"ValueError", "IndexError"} THEN Float(0, 0) ELSE r

safe_float(v) ==
    LET r == safe_float_body(v) IN
    IF IsRaise(r) /\ r.exc \in {"ValueError", "IndexError"} THEN None ELSE r

----------------------------------------------------------------------------
(* The value cells safe_float is called on *)

MaxLen == 3

FloatAlphabet == {"1", "0", ",", "&", ".", "$", " ", "-", "x"}

RECURSIVE StringsUpTo(_, _)
StringsUpTo(alphabet, n) ==
    IF n = 0 THEN {""}
    ELSE LET shorter == StringsUpTo(alphabet, n - 1) IN
         shorter \cup {s \o c : s \in shorter, c \in alphabet}

SampleValues ==
    {"1,234.5", "Level 2 & 5,000", "Level 2 &", "N/A", "$1,000,000", "1,000,000",
     "$ & 1,000,000", "Level 2 & 1,234.5", "A & 5 & 6", "A & 5 & x", "A & x & 6",
     "&", "& 7", "1e3", "1_000", "nan", "-inf", " 12 ", "0", "-0.50", "1.2.3",
     "5,000 &", "&&", "& 5 &"}

FloatInputs == StringsUpTo(FloatAlphabet, MaxLen) \cup SampleValues

----------------------------------------------------------------------------
(* Idle values of the variables an operation does not use *)

FloatIdle   == value = "" /\ sfResult = Pending
TableIdle   ==
    /\ hasLiq = FALSE /\ nLiq = 0 /\ hasAfter = FALSE /\ nAfter = 0
    /\ tpc = <<"idle">> /\ rowsRead = 0 /\ metrics = <<>> /\ lastTable = "none"
    /\ lastRow = <<>> /\ lastMetrics = <<>> /\ tOutcome = Pending
ExtractIdle ==
    /\ response = <<>> /\ input_text = "" /\ llm = Pending /\ epc = "idle"
    /\ eResult = Pending
    /\ llmCalls = 0 /\ fallbackRuns = 0
ParseIdle   == input_str = "" /\ sResult = Pending /\ sLogged = FALSE
FormatIdle ==
    /\ text = "" /\ fpc = "idle" /\ lines = <<>> /\ in_ul = FALSE /\ in_ol = FALSE
    /\ html_parts = <<>> /\ part_lines = <<>> /\ fResult = Pending

----------------------------------------------------------------------------
(* Specification of safe_float *)

InitFloat ==
    /\ value \in FloatInputs
    /\ sfResult = Pending
    /\ TableIdle /\ ExtractIdle /\ ParseIdle /\ FormatIdle

CallSafeFloat ==
    /\ sfResult = Pending
    /\ sfResult' = safe_float(value)
    /\ UNCHANGED <<value, tableVars, extractVars, parseVars, formatVars>>

NextFloat == CallSafeFloat

SpecFloat == InitFloat /\ [][NextFloat]_vars

----------------------------------------------------------------------------
(* Claims about safe_float, checked under SpecFloat *)

FloatOrNone(s) == LET r == PyFloat(s) IN IF IsRaise(r) THEN None ELSE r

\* The characters a float literal is written with, and the commas safe_float removes
NumericChars == Digits \cup Whitespace \cup {",", ".", "+", "-", "_"}
                \cup {"e", "E", "i", "I", "n", "N", "f", "F", "a", "A", "t", "T", "y", "Y"}
HasDigit(s) == \E i \in 1..Len(s) : Ch(s, i) \in Digits
IsSpecialWord(s) ==
    Lower(Unsigned(Strip(Replace(s, ",", "")))) \in {"inf", "infinity", "nan"}
LooksNumeric(s) ==
    /\ \A i \in 1..Len(s) : Ch(s, i) \in NumericChars
    /\ HasDigit(s) \/ IsSpecialWord(s)
Segments(v) == LET parts == Split(v, "&") IN {parts[i] : i \in 1..Len(parts)}

\* C3: safe_float is total on text cells: it returns a float or None and never
\* raises; it returns a float only when a segment of the cell is written with
\* the characters of a number, and zero only when the cell writes a zero.
C3_SafeFloatTotal ==
    sfResult # Pending =>
        /\ sfResult = None \/ IsFloat(sfResult)
        /\ IsFloat(sfResult) => \E seg \in Segments(value) : LooksNumeric(seg)
        /\ sfResult = Float(0, 0) => Contains("0", value)
        /\ value \in {"", "&", "N/A"} => sfResult = None

C3_Witness == value = "N/A" /\ sfResult = None

\* Everything after the first ampersand
AfterFirstAmpersand(v) == SubSeq(v, Find("&", v) + 1, Len(v))
\* The text between the first and the second ampersand (to the end when there
\* is no second one)
BetweenFirstAndSecond(v) ==
    LET rest == AfterFirstAmpersand(v)
        b    == Find("&", rest)
    IN  IF b = 0 THEN rest ELSE SubSeq(rest, 1, b - 1)

\* C4 (as claimed): a cell with an ampersand is judged on the whole text after
\* the first ampersand, also when it holds two or more ampersands.
C4_WholeRemainder ==
    (sfResult # Pending /\ Contains("&", value)) =>
        sfResult = FloatOrNone(Replace(AfterFirstAmpersand(value), ",", ""))

\* C4 (amended): a cell with an ampersand is judged on the text between the
\* first and the second ampersand, which is everything after the first when
\* there is only one: "Level 2 & 5,000" gives 5000.0 and "Level 2 &" gives None.
C4_SecondSegment ==
    sfResult # Pending =>
        /\ Contains("&", value) =>
              sfResult = FloatOrNone(Replace(BetweenFirstAndSecond(value), ",", ""))
        /\ value = "Level 2 & 5,000" => sfResult = Float(5, 3)
        /\ value = "Level 2 &" => sfResult = None

C4_Witness == value = "A & 5 & 6" /\ sfResult = Float(5, 0)

----------------------------------------------------------------------------
(* extract_important_metrics, src/data/utils.py:14-101 *)

\* The (substring, canonical key) tests of each table's if/elif chain, in
\* declaration order
LiquidityRules ==
    << <<"total identifiable intangible assets", "total_identifiable_intangible_assets">>,
       <<"trade names", "trade_names">>,
       <<"developed technology", "developed_technology">>,
       <<"customer relationships", "customer_relationships">> >>

\* Mutant: the 'total assets' branch stores under the key of the branch above it
BalanceSheetRules_CopyPaste ==
    << <<"total current assets", "current_assets">>,
       <<"total assets", "current_assets">>,
       <<"total current liabilities", "current_liabilities">>,
       <<"total liabilities", "total_liabilities">>,
       <<"total stockholders equity", "total_stockholders_equity">>,
       <<"cash and cash equivalents", "cash_and_cash_equivalents">>,
       <<"inventories", "inventory">>,
       <<"accounts receivable", "accounts_receivable">>,
       <<"accounts payable", "accounts_payable">>,
       <<"goodwill", "goodwill">>,
       <<"intangible assets net", "intangible_assets">>,
       <<"long-term debt net of current portion", "long_term_debt">> >>

BalanceSheetRules ==
    << <<"total current assets", "current_assets">>,
       <<"total assets", "total_assets">>,
       <<"total current liabilities", "current_liabilities">>,
       <<"total liabilities", "total_liabilities">>,
       <<"total stockholders equity", "total_stockholders_equity">>,
       <<"cash and cash equivalents", "cash_and_cash_equivalents">>,
       <<"inventories", "inventory">>,
       <<"accounts receivable", "accounts_receivable">>,
       <<"accounts payable", "accounts_payable">>,
       <<"goodwill", "goodwill">>,
       <<"intangible assets net", "intangible_assets">>,
       <<"long-term debt net of current portion", "long_term_debt">> >>

IncomeStatementRules ==
    << <<"sales", "sales">>,
       <<"net earnings", "net_earnings">>,
       <<"basic net earnings per common share", "basic_eps">>,
       <<"diluted net earnings per common share", "diluted_eps">>,
       <<"operating earnings", "operating_earnings">>,
       <<"gross profit", "gross_profit">>,
       <<"depreciation depletion and amortization", "depreciation_and_amortization">> >>

CashFlowRules ==
    << <<"net cash provided by operating activities", "net_cash_operating_activities">>,
       <<"net cash used in investing activities", "net_cash_investing_activities">>,
       <<"net cash provided by financing activities", "net_cash_financing_activities">> >>

\* The tables in the order the function reads them
TableOrder == <<"liq", "bs", "is", "cf">>
Tables     == {"liq", "bs", "is", "cf"}

RulesOf(tb) ==
    CASE tb = "liq" -> LiquidityRules
      [] tb = "bs"  -> BalanceSheetRules
      [] tb = "is"  -> IncomeStatementRules
      [] tb = "cf"  -> CashFlowRules

\* The position each table is read at: data[0][container][index]
TableIndex(tb) == CASE tb = "liq" -> 0 [] tb = "bs" -> 0 [] tb = "is" -> 1 [] tb = "cf" -> 2

EmptyDict == [k \in {} |-> None]
\* d[key] = v
DictSet(d, key, v) == [k \in DOMAIN d \cup {key} |-> IF k = key THEN v ELSE d[k]]

RECURSIVE ApplyRules_EveryMatch(_, _, _, _)
\* Mutant: a chain of independent ifs, which stores under every matching key
ApplyRules_EveryMatch(rules, label, cell, m) ==
    IF rules = <<>> THEN m
    ELSE ApplyRules_EveryMatch(Tail(rules), label, cell,
             IF Contains(Head(rules)[1], label)
             THEN DictSet(m, Head(rules)[2], safe_float(cell)) ELSE m)

RECURSIVE ApplyRules(_, _, _, _)
\* One pass of a loop body: the if/elif chain on item[0].lower(), storing
\* safe_float(item[2]) under the key of the first test that succeeds
ApplyRules(rules, label, cell, m) ==
    IF rules = <<>> THEN m
    ELSE IF Contains(Head(rules)[1], label)
         THEN DictSet(m, Head(rules)[2], safe_float(cell))
         ELSE ApplyRules(Tail(rules), label, cell, m)

\* The loop body of table tb on one row (item[0] is row[1], item[2] is row[3])
ProcessItem(tb, item, m) == ApplyRules(RulesOf(tb), Lower(item[1]), item[3], m)

----------------------------------------------------------------------------
(* The records extract_important_metrics is called on *)

MaxRows   == 2    \* rows read in one call, over all tables
MaxTables == 3    \* tables in the after_mda_tables container

Labels ==
    {"Total Assets", "Total Assets (Restated)", "Total current assets", "Footnote 3",
     "Basic net earnings per common share", "Net sales", "Trade names",
     "Net cash provided by operating activities"}
Cells == {"$1,000,000", "1,000,000", "$ & 1,000,000"}
Rows  == {<<l, "", c>> : l \in Labels, c \in Cells}

\* The container holding table tb is a key of data[0]
HasContainer(tb) == IF tb = "liq" THEN hasLiq ELSE hasAfter
\* The number of tables in that container
ContainerLen(tb) == IF tb = "liq" THEN nLiq ELSE nAfter

NextTable(tb) ==
    CASE tb = "liq" -> "bs" [] tb = "bs" -> "is" [] tb = "is" -> "cf" [] tb = "cf" -> "ret"

----------------------------------------------------------------------------
(* Specification of extract_important_metrics.  tpc is the position in the   *)
(* function: <<"if", tb>> before the test guarding table tb, <<"for", tb>>   *)
(* inside its loop, <<"ret">> before the return, <<"done">> after it.  The   *)
(* rows of a table are drawn as the loop reads them.                         *)

InitTable ==
    /\ hasLiq \in BOOLEAN
    /\ nLiq \in 0..1
    /\ hasLiq = FALSE => nLiq = 0
    /\ hasAfter \in BOOLEAN
    /\ nAfter \in 0..MaxTables
    /\ hasAfter = FALSE => nAfter = 0
    /\ tpc = <<"if", "liq">>
    /\ rowsRead = 0
    /\ metrics = EmptyDict
    /\ lastTable = "none"
    /\ lastRow = <<>>
    /\ lastMetrics = EmptyDict
    /\ tOutcome = Pending
    /\ FloatIdle /\ ExtractIdle /\ ParseIdle /\ FormatIdle

\* `if '<container>' in data[0]:` false: the table is skipped
SkipTable(tb) ==
    /\ tpc = <<"if", tb>>
    /\ ~HasContainer(tb)
    /\ tpc' = IF NextTable(tb) = "ret" THEN <<"ret">> ELSE <<"if", NextTable(tb)>>
    /\ UNCHANGED <<hasLiq, nLiq, hasAfter, nAfter, rowsRead, metrics, lastTable, lastRow,
                   lastMetrics, tOutcome, floatVars, extractVars, parseVars, formatVars>>

\* `data[0]['<container>'][i]` on a container of more than i tables
EnterTable(tb) ==
    /\ tpc = <<"if", tb>>
    /\ HasContainer(tb)
    /\ TableIndex(tb) < ContainerLen(tb)
    /\ tpc' = <<"for", tb>>
    /\ UNCHANGED <<hasLiq, nLiq, hasAfter, nAfter, rowsRead, metrics, lastTable, lastRow,
                   lastMetrics, tOutcome, floatVars, extractVars, parseVars, formatVars>>

\* `data[0]['<container>'][i]` on a container of at most i tables: IndexError,
\* which nothing in the function catches
IndexTableFails(tb) ==
    /\ tpc = <<"if", tb>>
    /\ HasContainer(tb)
    /\ TableIndex(tb) >= ContainerLen(tb)
    /\ tpc' = <<"done">>
    /\ tOutcome' = Raise("IndexError")
    /\ UNCHANGED <<hasLiq, nLiq, hasAfter, nAfter, rowsRead, metrics, lastTable, lastRow,
                   lastMetrics, floatVars, extractVars, parseVars, formatVars>>

\* One pass of the loop over the rows of table tb
ProcessRow(tb) ==
    /\ tpc = <<"for", tb>>
    /\ rowsRead < MaxRows
    /\ \E item \in Rows :
          /\ metrics' = ProcessItem(tb, item, metrics)
          /\ lastRow' = item
    /\ lastTable' = tb
    /\ lastMetrics' = metrics
    /\ rowsRead' = rowsRead + 1
    /\ UNCHANGED <<hasLiq, nLiq, hasAfter, nAfter, tpc, tOutcome, floatVars, extractVars,
                   parseVars, formatVars>>

\* The loop over table tb ends
EndTable(tb) ==
    /\ tpc = <<"for", tb>>
    /\ tpc' = IF NextTable(tb) = "ret" THEN <<"ret">> ELSE <<"if", NextTable(tb)>>
    /\ UNCHANGED <<hasLiq, nLiq, hasAfter, nAfter, rowsRead, metrics, lastTable, lastRow,
                   lastMetrics, tOutcome, floatVars, extractVars, parseVars, formatVars>>

\* `return metrics`
ReturnMetrics ==
    /\ tpc = <<"ret">>
    /\ tpc' = <<"done">>
    /\ tOutcome' = [t |-> "dict", d |-> metrics]
    /\ UNCHANGED <<hasLiq, nLiq, hasAfter, nAfter, rowsRead, metrics, lastTable, lastRow,
                   lastMetrics, floatVars, extractVars, parseVars, formatVars>>

NextTableStep ==
    \/ \E tb \in Tables : SkipTable(tb)
    \/ \E tb \in Tables : EnterTable(tb)
    \/ \E tb \in Tables : IndexTableFails(tb)
    \/ \E tb \in Tables : ProcessRow(tb)
    \/ \E tb \in Tables : EndTable(tb)
    \/ ReturnMetrics

SpecTable == InitTable /\ [][NextTableStep]_vars

----------------------------------------------------------------------------
(* Claims about extract_important_metrics, checked under SpecTable *)

RowProcessed == rowsRead > 0
LastLabel    == Lower(lastRow[1])
\* The rules of table tb whose substring occurs in the lower-cased label
MatchingRules(tb, label) ==
    {i \in 1..Len(RulesOf(tb)) : Contains(RulesOf(tb)[i][1], Lower(label))}
\* The canonical key of the first of them in declaration order
FirstRuleKey(tb, label) ==
    LET mr == MatchingRules(tb, label) IN
    RulesOf(tb)[CHOOSE i \in mr : \A j \in mr : i <= j][2]
\* The keys at which two dicts differ
Differ(d1, d2) ==
    {k \in DOMAIN d1 \cup DOMAIN d2 :
        \/ k \notin DOMAIN d1
        \/ k \notin DOMAIN d2
        \/ d1[k] # d2[k]}
\* A balance-sheet row that the 'total assets' test takes
TotalAssetsRow ==
    /\ RowProcessed
    /\ lastTable = "bs"
    /\ Contains("total assets", LastLabel)
    /\ ~Contains("total current assets", LastLabel)

\* C2 (as claimed): a balance-sheet row taken by the 'total assets' rule with
\* the value cell "$1,000,000" stores 1000000.0 under total_assets.
C2_CurrencyMarkerParsed ==
    (TotalAssetsRow /\ lastRow[3] = "$1,000,000") =>
        /\ "total_assets" \in DOMAIN metrics
        /\ metrics["total_assets"] = Float(1, 6)

\* C2 (amended): such a row stores 1000000.0 under total_assets when the cell
\* is the number with thousands separators alone ("1,000,000") or after an
\* ampersand ("$ & 1,000,000"); with the currency marker attached to the
\* number ("$1,000,000") it stores the missing value None under total_assets.
C2_TotalAssetsStored ==
    TotalAssetsRow =>
        /\ "total_assets" \in DOMAIN metrics
        /\ lastRow[3] \in {"1,000,000", "$ & 1,000,000"} =>
              metrics["total_assets"] = Float(1, 6)
        /\ lastRow[3] = "$1,000,000" => metrics["total_assets"] = None

C2_Witness ==
    /\ RowProcessed
    /\ lastTable = "bs"
    /\ lastRow = <<"Total Assets", "", "$1,000,000">>
    /\ "total_assets" \in DOMAIN metrics
    /\ metrics["total_assets"] = None

\* C5: whichever tables are absent, also when a container is present and holds
\* fewer tables than the positions read, the call returns the metrics gathered
\* from the tables present and does not raise.
C5_AbsentTablesSkipped ==
    tpc = <<"done">> => (tOutcome.t = "dict" /\ tOutcome.d = metrics)

\* C6: at most one rule substring of a table occurs in any row label, and a
\* label containing 'basic net earnings per common share' is stored under
\* basic_eps.
C6_RulesExclusive ==
    RowProcessed =>
        /\ Cardinality(MatchingRules(lastTable, lastRow[1])) <= 1
        /\ (lastTable = "is"
              /\ Contains("basic net earnings per common share", LastLabel))
           => "basic_eps" \in DOMAIN metrics

\* C9: one pass of a table's loop changes the metrics at most at the key of the
\* first rule, in declaration order, whose substring occurs in the lower-cased
\* label; a row matching no rule leaves the metrics as they were and the call
\* goes on.
C9_RowFrame ==
    RowProcessed =>
        /\ IF MatchingRules(lastTable, lastRow[1]) = {}
           THEN metrics = lastMetrics
           ELSE /\ Differ(metrics, lastMetrics) \subseteq
                       {FirstRuleKey(lastTable, lastRow[1])}
                /\ FirstRuleKey(lastTable, lastRow[1]) \in DOMAIN metrics
        /\ tpc = <<"for", lastTable>> => tOutcome = Pending

C9_Witness ==
    /\ rowsRead = 2
    /\ lastRow[1] = "Footnote 3"
    /\ metrics = lastMetrics
    /\ metrics # EmptyDict

----------------------------------------------------------------------------
(* Python values of the records and of the model's replies *)

Str(s)    == [t |-> "str", s |-> s]
Dict(d)   == [t |-> "dict", d |-> d]
List(q)   == [t |-> "list", q |-> q]
Num(n)    == [t |-> "int", n |-> n]
Bool(b)   == [t |-> "bool", b |-> b]
IsDict(v) == v.t = "dict"
\* d.get(key, default)
Get(d, key, default) == IF key \in DOMAIN d THEN d[key] ELSE default
\* bool(v): the truth value an `if v:` tests
Truthy(v) ==
    CASE v.t = "str"  -> v.s # ""
      [] v.t = "dict" -> DOMAIN v.d # {}
      [] v.t = "list" -> v.q # <<>>
      [] v.t = "int"  -> v.n # 0
      [] v.t = "bool" -> v.b
      [] OTHER        -> FALSE

----------------------------------------------------------------------------
(* json.loads, src/utils.py:38: objects, arrays, strings without escapes,    *)
(* unsigned integers, true, false, null.  A parse step gives [ok, v, i]: the  *)
(* value and the position after it.                                          *)

\* s[i-1:j] in Python's terms: the characters i..j that exist
Slice(s, i, j) ==
    IF i > Len(s) \/ j < i THEN ""
    ELSE SubSeq(s, i, IF j > Len(s) THEN Len(s) ELSE j)

JFail == [ok |-> FALSE]
JOk(v, i) == [ok |-> TRUE, v |-> v, i |-> i]

RECURSIVE JSkip(_, _)
JSkip(s, i) == IF i <= Len(s) /\ Ch(s, i) \in Whitespace THEN JSkip(s, i + 1) ELSE i

\* The position of the first '"' at or after i (0 when there is none)
ClosingQuote(s, i) ==
    IF \E j \in i..Len(s) : Ch(s, j) = "\""
    THEN CHOOSE j \in i..Len(s) :
            Ch(s, j) = "\"" /\ \A k \in i..(j - 1) : Ch(s, k) # "\""
    ELSE 0

RECURSIVE DigitRunEnd(_, _)
\* The position after the run of digits that starts at i
DigitRunEnd(s, i) ==
    IF i <= Len(s) /\ Ch(s, i) \in Digits THEN DigitRunEnd(s, i + 1) ELSE i

RECURSIVE JValue(_, _)
RECURSIVE JMembers(_, _, _)
RECURSIVE JElements(_, _, _)

\* After '{' or ',': "key" : value, then ',' or '}'
JMembers(s, i0, d) ==
    LET i == JSkip(s, i0) IN
    IF i > Len(s) \/ Ch(s, i) # "\"" THEN JFail
    ELSE LET q == ClosingQuote(s, i + 1) IN
         IF q = 0 THEN JFail
         ELSE LET key == SubSeq(s, i + 1, q - 1)
                  c   == JSkip(s, q + 1)
              IN  IF c > Len(s) \/ Ch(s, c) # ":" THEN JFail
                  ELSE LET r == JValue(s, c + 1) IN
                       IF ~r.ok THEN JFail
                       ELSE LET n  == JSkip(s, r.i)
                                d2 == DictSet(d, key, r.v)
                            IN  IF n > Len(s) THEN JFail
                                ELSE IF Ch(s, n) = "}" THEN JOk(Dict(d2), n + 1)
                                ELSE IF Ch(s, n) = "," THEN JMembers(s, n + 1, d2)
                                ELSE JFail

\* After '[' or ',': value, then ',' or ']'
JElements(s, i0, q) ==
    LET r == JValue(s, i0) IN
    IF ~r.ok THEN JFail
    ELSE LET n  == JSkip(s, r.i)
             q2 == Append(q, r.v)
         IN  IF n > Len(s) THEN JFail
             ELSE IF Ch(s, n) = "]" THEN JOk(List(q2), n + 1)
             ELSE IF Ch(s, n) = "," THEN JElements(s, n + 1, q2)
             ELSE JFail

JValue(s, i0) ==
    LET i == JSkip(s, i0) IN
    IF i > Len(s) THEN JFail
    ELSE LET c == Ch(s, i) IN
         IF c = "{"
         THEN LET n == JSkip(s, i + 1) IN
              IF n <= Len(s) /\ Ch(s, n) = "}" THEN JOk(Dict(EmptyDict), n + 1)
              ELSE JMembers(s, i + 1, EmptyDict)
         ELSE IF c = "["
         THEN LET n == JSkip(s, i + 1) IN
              IF n <= Len(s) /\ Ch(s, n) = "]" THEN JOk(List(<<>>), n + 1)
              ELSE JElements(s, i + 1, <<>>)
         ELSE IF c = "\""
         THEN LET q == ClosingQuote(s, i + 1) IN
              IF q = 0 THEN JFail ELSE JOk(Str(SubSeq(s, i + 1, q - 1)), q + 1)
         ELSE IF Slice(s, i, i + 3) = "null" THEN JOk(None, i + 4)
         ELSE IF Slice(s, i, i + 3) = "true" THEN JOk(Bool(TRUE), i + 4)
         ELSE IF Slice(s, i, i + 4) = "false" THEN JOk(Bool(FALSE), i + 5)
         ELSE IF c \in Digits /\ (c # "0" \/ DigitRunEnd(s, i) = i + 1)
         THEN LET e == DigitRunEnd(s, i) IN JOk(Num(DigitsVal(SubSeq(s, i, e - 1))), e)
         ELSE JFail

\* json.loads(content): the value, or JSONDecodeError (TypeError when the
\* content is None)
JsonLoads(content) ==
    IF content = None THEN Raise("TypeError")
    ELSE LET r == JValue(content.s, 1) IN
         IF r.ok /\ JSkip(content.s, r.i) > Len(content.s) THEN r.v
         ELSE Raise("JSONDecodeError")

----------------------------------------------------------------------------
(* extract_metrics: the structured path, src/utils.py:38-53 *)

RECURSIVE TitleFrom(_, _)
\* str.title(): a letter that follows a letter is lower-cased, any other
\* letter is upper-cased
TitleFrom(s, afterLetter) ==
    IF s = "" THEN ""
    ELSE LET c == Ch(s, 1) IN
         (IF afterLetter THEN LowerCh(c) ELSE UpperCh(c))
             \o TitleFrom(SubSeq(s, 2, Len(s)), IsLetter(c))
Title(s) == TitleFrom(s, FALSE)

\* k.replace('_', ' ').title()
DisplayName(k) == Title(Replace(k, "_", " "))

\* Mutant: the comprehension without its `if v is not None`
FormatMetrics_KeepNull(md) ==
    LET names == {DisplayName(k) : k \in DOMAIN md} IN
    [n \in names |-> md[CHOOSE k \in DOMAIN md : DisplayName(k) = n]]

\* {k.replace('_', ' ').title(): v for k, v in metrics.items() if v is not None}
\* (the replies drawn here hold no two keys with the same display name)
FormatMetrics(md) ==
    LET kept  == {k \in DOMAIN md : md[k] # None}
        names == {DisplayName(k) : k \in kept}
    IN  [n \in names |-> md[CHOOSE k \in kept : DisplayName(k) = n]]

ResultFields == {"metrics", "context", "competitor", "contradictions", "additional_context"}

\* Lines 38-53 on the reply's content: the formatted result, or the exception
\* the try body raises
StructuredResult(content) ==
    LET extracted_data == JsonLoads(content) IN
    IF IsRaise(extracted_data) THEN extracted_data
    ELSE IF ~IsDict(extracted_data) THEN Raise("TypeError")
    ELSE IF "metrics" \notin DOMAIN extracted_data.d THEN Raise("KeyError")
    ELSE IF ~IsDict(extracted_data.d["metrics"]) THEN Raise("AttributeError")
    ELSE Dict([f \in ResultFields |->
            CASE f = "metrics"    -> Dict(FormatMetrics(extracted_data.d["metrics"].d))
              [] f = "context"    -> Get(extracted_data.d, "context", Dict(EmptyDict))
              [] f = "competitor" -> Get(extracted_data.d, "competitor", Str(""))
              [] f = "contradictions" -> Get(extracted_data.d, "contradictions", Str(""))
              [] f = "additional_context" ->
                     Get(extracted_data.d, "additional_context", Str(""))])

----------------------------------------------------------------------------
(* fallback_extraction, src/utils.py:183-239 *)

ShortKey      == "1. Task outcome (short version)"
DetailedKey   == "2. Task outcome (extremely detailed version)"
AdditionalKey == "3. Additional context (if relevant)"

\* [\d,\.] and [\d\.]
RevenueClass == Digits \cup {",", "."}
NumberClass  == Digits \cup {"."}
\* \s
ReSpace == {" ", "\t", "\n", "\r"}

RECURSIVE RunEnd(_, _, _)
\* The position after the longest run of characters of class cls from i
RunEnd(s, i, cls) ==
    IF i <= Len(s) /\ Ch(s, i) \in cls THEN RunEnd(s, i + 1, cls) ELSE i

NoMatch == [t |-> "nomatch"]
\* A match object, of which the code reads group(1)
Match(g) == [t |-> "match", group1 |-> g]

\* r'\$?([\d,\.]+)\s*million' tried at position i (re.IGNORECASE)
RevenueAt(s, i) ==
    LET j == IF Slice(s, i, i) = "$" THEN i + 1 ELSE i
        e == RunEnd(s, j, RevenueClass)
        w == RunEnd(s, e, ReSpace)
    IN  IF e > j /\ Lower(Slice(s, w, w + 6)) = "million"
        THEN Match(SubSeq(s, j, e - 1)) ELSE NoMatch

\* re.search of the revenue pattern: the match at the leftmost position
SearchRevenue(s) ==
    LET hits == {i \in 1..Len(s) : RevenueAt(s, i) # NoMatch} IN
    IF hits = {} THEN NoMatch
    ELSE RevenueAt(s, CHOOSE i \in hits : \A k \in hits : i <= k)

\* r'<literal>.*?([\d\.]+)<suffix>' tried at position i: the literal, then
\* the first position on the same line from which a longest run of [\d\.]
\* is followed by the suffix
LabelledAt(s, i, literal, suffix) ==
    LET p    == i + Len(literal)
        ok(j) == /\ \A k \in p..(j - 1) : Ch(s, k) # "\n"
                 /\ RunEnd(s, j, NumberClass) > j
                 /\ LET e == RunEnd(s, j, NumberClass) IN
                    Slice(s, e, e + Len(suffix) - 1) = suffix
        js   == {j \in p..Len(s) : ok(j)}
    IN  IF Lower(Slice(s, i, p - 1)) = Lower(literal) /\ js # {}
        THEN LET j == CHOOSE j \in js : \A k \in js : j <= k IN
             Match(SubSeq(s, j, RunEnd(s, j, NumberClass) - 1))
        ELSE NoMatch

SearchLabelled(s, literal, suffix) ==
    LET hits == {i \in 1..Len(s) : LabelledAt(s, i, literal, suffix) # NoMatch} IN
    IF hits = {} THEN NoMatch
    ELSE LabelledAt(s, CHOOSE i \in hits : \A k \in hits : i <= k, literal, suffix)

\* The patterns dict in its order: metric, search, and the text put around group(1)
Patterns ==
    << [metric |-> "Revenue", literal |-> "", suffix |-> ""],
       [metric |-> "Gross Profit Margin", literal |-> "Gross Profit Margin", suffix |-> "%"],
       [metric |-> "Net Profit Margin", literal |-> "Net Profit Margin", suffix |-> "%"],
       [metric |-> "Debt To Equity Ratio", literal |-> "Debt to Equity Ratio", suffix |-> ""],
       [metric |-> "Total Debt Ratio", literal |-> "Total Debt Ratio", suffix |-> ""] >>

\* re.search(pattern, financial_text, re.IGNORECASE) for the pattern of p
Search(p, txt) ==
    IF p.metric = "Revenue" THEN SearchRevenue(txt)
    ELSE SearchLabelled(txt, p.literal, p.suffix)

\* The value stored for a match: lines 224-229
StoredValue(metric, v) ==
    IF metric = "Revenue" THEN "$" \o v \o " million"
    ELSE IF Contains("Margin", metric) THEN v \o "%"
    ELSE v

RECURSIVE FallbackMetrics(_, _, _)
\* The loop over the patterns on a str financial_text
FallbackMetrics(ps, txt, m) ==
    IF ps = <<>> THEN m
    ELSE LET mt == Search(Head(ps), txt) IN
         FallbackMetrics(Tail(ps), txt,
             IF mt # NoMatch
             THEN DictSet(m, Head(ps).metric, Str(StoredValue(Head(ps).metric, mt.group1)))
             ELSE m)

\* extracted_data as returned, given the metrics the patterns found
FallbackFields(resp, detailed_outcome, m) ==
    [f \in ResultFields |->
        CASE f = "metrics" -> Dict(m)
          [] f = "context" ->
                 IF IsDict(detailed_outcome) THEN detailed_outcome ELSE Dict(EmptyDict)
          [] f = "competitor" ->
                 IF IsDict(detailed_outcome)
                 THEN Get(detailed_outcome.d, "Competitor Analysis", Str("")) ELSE Str("")
          [] f = "contradictions" ->
                 IF IsDict(detailed_outcome)
                 THEN Get(detailed_outcome.d, "Contradictory Analysis", Str("")) ELSE Str("")
          [] f = "additional_context" -> Get(resp, AdditionalKey, Str(""))]

\* fallback_extraction(response): the dict returned, or TypeError from
\* re.search when a non-empty "Financial Metrics" is not a str
fallback_extraction(resp) ==
    LET detailed_outcome == Get(resp, DetailedKey, Dict(EmptyDict))
        financial_text   == IF IsDict(detailed_outcome)
                            THEN Get(detailed_outcome.d, "Financial Metrics", Str(""))
                            ELSE Str("")
    IN  IF IsDict(detailed_outcome) /\ Truthy(financial_text)
        THEN IF financial_text.t # "str" THEN Raise("TypeError")
             ELSE Dict(FallbackFields(resp, detailed_outcome,
                          FallbackMetrics(Patterns, financial_text.s, EmptyDict)))
        ELSE Dict(FallbackFields(resp, detailed_outcome, EmptyDict))

----------------------------------------------------------------------------
(* prepare_input_text, src/utils.py:148-180 *)

\* The order in which the keys of the dicts drawn below were inserted
KeyOrder == <<"Financial Metrics", "Competitor Analysis", "Contradictory Analysis",
              "Revenue">>
\* list(d.items()) keys, in insertion order
KeysInOrder(d) == SelectSeq(KeyOrder, LAMBDA k : k \in DOMAIN d)

RECURSIVE Join(_, _)
\* sep.join(parts)
Join(sep, parts) ==
    IF parts = <<>> THEN ""
    ELSE IF Len(parts) = 1 THEN parts[1]
    ELSE parts[1] \o sep \o Join(sep, Tail(parts))

RECURSIVE Repr(_)
\* repr(v) of a str without quotes or escapes, a list, a dict, None
Repr(v) ==
    CASE v.t = "str"  -> "'" \o v.s \o "'"
      [] v.t = "list" -> "[" \o Join(", ", [i \in 1..Len(v.q) |-> Repr(v.q[i])]) \o "]"
      [] v.t = "dict" ->
            LET ks == KeysInOrder(v.d) IN
            "{" \o Join(", ", [i \in 1..Len(ks) |->
                                  "'" \o ks[i] \o "': " \o Repr(v.d[ks[i]])]) \o "}"
      [] OTHER -> "None"
\* str(v), which an f-string applies
PyStr(v) == IF v.t = "str" THEN v.s ELSE Repr(v)

prepare_input_text(resp) ==
    LET short_version      == Get(resp, ShortKey, Str(""))
        detailed_outcome   == Get(resp, DetailedKey, Dict(EmptyDict))
        additional_context == Get(resp, AdditionalKey, Str(""))
        summary  == IF Truthy(short_version)
                    THEN <<"SUMMARY: " \o PyStr(short_version)>> ELSE <<>>
        detailed == IF ~Truthy(detailed_outcome) THEN <<>>
                    ELSE IF IsDict(detailed_outcome)
                    THEN LET ks == KeysInOrder(detailed_outcome.d) IN
                         <<"DETAILED ANALYSIS:">> \o
                         [i \in 1..Len(ks) |->
                             ks[i] \o ": " \o PyStr(detailed_outcome.d[ks[i]])]
                    ELSE <<"DETAILED ANALYSIS:", PyStr(detailed_outcome)>>
        additional == IF Truthy(additional_context)
                      THEN <<"ADDITIONAL CONTEXT: " \o PyStr(additional_context)>>
                      ELSE <<>>
    IN  Join("\n\n", summary \o detailed \o additional)

----------------------------------------------------------------------------
(* The records extract_metrics is called on and the outcomes of the call to  *)
(* the language model                                                        *)

\* The dicts over a set of optional keys, each with a set of possible values
RECURSIVE DictsOver(_, _)
DictsOver(keys, vals) ==
    IF keys = <<>> THEN {EmptyDict}
    ELSE LET rest == DictsOver(Tail(keys), vals) IN
         rest \cup {DictSet(d, Head(keys), v) : d \in rest, v \in vals[Head(keys)]}

FinancialTexts ==
    {"Revenue of $1098.7 million",
     "Revenue: $1,098.7 million. Gross Profit Margin: 30.04%. Net Profit Margin of 0.43%; Debt to Equity Ratio 3.44, Total Debt Ratio: 1.00",
     "No figures were reported"}

DetailedDicts ==
    DictsOver(<<"Financial Metrics", "Competitor Analysis", "Contradictory Analysis">>,
        [k \in {"Financial Metrics", "Competitor Analysis", "Contradictory Analysis"} |->
            CASE k = "Financial Metrics" ->
                     {Str(tx) : tx \in FinancialTexts} \cup
                     {Str(""), List(<<Str("Revenue of $1098.7 million")>>),
                      Dict(DictSet(EmptyDict, "Revenue", Str("$5 million")))}
              [] k = "Competitor Analysis"    -> {Str("Acme leads the market")}
              [] k = "Contradictory Analysis" -> {Str("Margins disagree")}])

Responses ==
    DictsOver(<<ShortKey, DetailedKey, AdditionalKey>>,
        [k \in {ShortKey, DetailedKey, AdditionalKey} |->
            CASE k = ShortKey      -> {Str("Strong year")}
              [] k = DetailedKey   -> {Dict(d) : d \in DetailedDicts}
                                      \cup {Str("Revenue of $1098.7 million")}
              [] k = AdditionalKey -> {Str("Audit pending")}])

\* response_obj.choices[0].message.content
Reply(content) == [t |-> "reply", content |-> content]

ReplyContents ==
    {Str("{\"metrics\": {\"revenue\": \"$1098.7 million\", \"gross_profit_margin\": \"30.04%\", \"net_profit_margin\": null, \"debt_to_equity_ratio\": null}, \"context\": {\"Overview\": \"Stable\"}, \"competitor\": \"Acme\", \"contradictions\": \"\", \"additional_context\": \"Audited\"}"),
     Str("{\"metrics\": {}}"),
     Str("{\"metrics\": {\"return_on_equity\": null, \"current_ratio\": \"1.5\"}, \"competitor\": \"Acme\"}"),
     Str("{\"metrics\": {\"revenue\": \"$5 million\""),
     Str("{\"context\": {}}"),
     Str("{\"metrics\": null}"),
     Str("[]"),
     Str("Sorry, I cannot help."),
     Str(""),
     None}

CompletionErrors == {"APIConnectionError"}

----------------------------------------------------------------------------
(* Specification of extract_metrics.  epc is the position in the function:   *)
(* "start", "call" (before completion), "parse" (the reply is in hand),      *)
(* "except" (in the handler), "done".                                        *)

InitExtract ==
    /\ response \in Responses
    /\ input_text = ""
    /\ llm = Pending
    /\ epc = "start"
    /\ eResult = Pending
    /\ llmCalls = 0
    /\ fallbackRuns = 0
    /\ FloatIdle /\ TableIdle /\ ParseIdle /\ FormatIdle

\* input_text = prepare_input_text(response)
PrepareInput ==
    /\ epc = "start"
    /\ input_text' = prepare_input_text(response)
    /\ epc' = "call"
    /\ UNCHANGED <<response, llm, eResult, llmCalls, fallbackRuns, floatVars, tableVars,
                   parseVars, formatVars>>

\* Mutant: a failed completion(...) is issued a second time before the handler runs
CompletionRaises_Retry ==
    /\ epc = "call"
    /\ \E exc \in CompletionErrors : llm' = Raise(exc)
    /\ llmCalls' = llmCalls + 1
    /\ epc' = IF llmCalls = 0 THEN "call" ELSE "except"
    /\ UNCHANGED <<response, input_text, eResult, fallbackRuns, floatVars, tableVars,
                   parseVars, formatVars>>

\* completion(...) raises
CompletionRaises ==
    /\ epc = "call"
    /\ \E exc \in CompletionErrors : llm' = Raise(exc)
    /\ llmCalls' = llmCalls + 1
    /\ epc' = "except"
    /\ UNCHANGED <<response, input_text, eResult, fallbackRuns, floatVars, tableVars,
                   parseVars, formatVars>>

\* completion(...) returns a reply
CompletionReturns ==
    /\ epc = "call"
    /\ \E content \in ReplyContents : llm' = Reply(content)
    /\ llmCalls' = llmCalls + 1
    /\ epc' = "parse"
    /\ UNCHANGED <<response, input_text, eResult, fallbackRuns, floatVars, tableVars,
                   parseVars, formatVars>>

\* Lines 38-53 run through: return formatted_result
FormatReply ==
    /\ epc = "parse"
    /\ ~IsRaise(StructuredResult(llm.content))
    /\ eResult' = StructuredResult(llm.content)
    /\ epc' = "done"
    /\ UNCHANGED <<response, input_text, llm, llmCalls, fallbackRuns, floatVars, tableVars,
                   parseVars, formatVars>>

\* Lines 38-53 raise: control passes to `except Exception`
ReplyFails ==
    /\ epc = "parse"
    /\ IsRaise(StructuredResult(llm.content))
    /\ epc' = "except"
    /\ UNCHANGED <<response, input_text, llm, eResult, llmCalls, fallbackRuns, floatVars,
                   tableVars, parseVars, formatVars>>

\* return fallback_extraction(response): its result, or the exception it raises
RunFallback ==
    /\ epc = "except"
    /\ eResult' = fallback_extraction(response)
    /\ fallbackRuns' = fallbackRuns + 1
    /\ epc' = "done"
    /\ UNCHANGED <<response, input_text, llm, llmCalls, floatVars, tableVars, parseVars, formatVars>>

NextExtract ==
    \/ PrepareInput
    \/ CompletionRaises
    \/ CompletionReturns
    \/ FormatReply
    \/ ReplyFails
    \/ RunFallback

SpecExtract == InitExtract /\ [][NextExtract]_vars

----------------------------------------------------------------------------
(* Properties of extract_metrics and fallback_extraction *)

\* extract_metrics has returned or raised
Returned == epc = "done"
\* The try body failed: completion raised, or lines 38-53 raised on the reply
StructuredFailed ==
    llm # Pending /\ (IsRaise(llm) \/ IsRaise(StructuredResult(llm.content)))
\* The reply as json.loads reads it
ReplyData == JsonLoads(llm.content)

\* C1: whenever the structured call or the parsing of its reply has failed,
\* extract_metrics returns, without raising, the result fallback_extraction
\* gives for the same record.
C1_FailureContained ==
    (Returned /\ StructuredFailed) =>
        /\ ~IsRaise(eResult)
        /\ eResult = fallback_extraction(response)

\* A result with exactly the five fields
HasFiveFields(r) == IsDict(r) /\ DOMAIN r.d = ResultFields

\* The detailed-outcome section of the record and its subsections
HasDetailed == DetailedKey \in DOMAIN response
HasSubsection(name) ==
    HasDetailed /\ IsDict(response[DetailedKey]) /\ name \in DOMAIN response[DetailedKey].d

\* The defaults of the fallback path: a field is empty when its source section
\* or subsection is absent from the record
FallbackDefaults(r) ==
    /\ ~HasSubsection("Financial Metrics") => r.d["metrics"] = Dict(EmptyDict)
    /\ ~HasDetailed => r.d["context"] = Dict(EmptyDict)
    /\ ~HasSubsection("Competitor Analysis") => r.d["competitor"] = Str("")
    /\ ~HasSubsection("Contradictory Analysis") => r.d["contradictions"] = Str("")
    /\ AdditionalKey \notin DOMAIN response => r.d["additional_context"] = Str("")

\* C7: fallback_extraction never raises and returns all five fields, each
\* empty when its source section or subsection is absent, and context is the
\* detailed-outcome section of the record whenever that section is present,
\* whatever its shape.
C7_FallbackTotal ==
    (Returned /\ fallbackRuns > 0) =>
        /\ ~IsRaise(eResult)
        /\ HasFiveFields(eResult)
        /\ FallbackDefaults(eResult)
        /\ HasDetailed => eResult.d["context"] = response[DetailedKey]

\* A display-cased name: no underscore, every letter that starts a word is a
\* capital and every letter that follows a letter is small
IsDisplayCased(k) ==
    /\ ~Contains("_", k)
    /\ \A i \in 1..Len(k) :
          IsLetter(Ch(k, i)) =>
              IF i > 1 /\ IsLetter(Ch(k, i - 1))
              THEN Ch(k, i) \in LowerLetters
              ELSE Ch(k, i) \in UpperLetters

\* The metrics field maps display-cased names to values, none of them null
MetricsShape(m) ==
    /\ IsDict(m)
    /\ \A k \in DOMAIN m.d : IsDisplayCased(k) /\ m.d[k] # None

\* The defaults of the structured path: a field the reply lacks is empty
StructuredDefaults(r) ==
    /\ "context" \notin DOMAIN ReplyData.d => r.d["context"] = Dict(EmptyDict)
    /\ \A f \in {"competitor", "contradictions", "additional_context"} :
          f \notin DOMAIN ReplyData.d => r.d[f] = Str("")

\* C10: in every execution of extract_metrics that returns, on the structured
\* path and on the fallback path alike, the result has exactly the five fields,
\* metrics maps display-cased names to values with no null stored, and
\* context, competitor, contradictions and additional_context are the empty
\* mapping / empty string when the reply (structured path) or the record
\* (fallback path) lacks them.
C10_SameShape ==
    (Returned /\ ~IsRaise(eResult)) =>
        /\ HasFiveFields(eResult)
        /\ MetricsShape(eResult.d["metrics"])
        /\ IF fallbackRuns = 0 THEN StructuredDefaults(eResult)
           ELSE FallbackDefaults(eResult)

\* The structured path has returned for a reply that holds a null metric next
\* to a reported one and lacks the context field
C10_Witness ==
    /\ Returned /\ fallbackRuns = 0 /\ ~IsRaise(eResult)
    /\ \E k \in DOMAIN ReplyData.d["metrics"].d : ReplyData.d["metrics"].d[k] = None
    /\ "context" \notin DOMAIN ReplyData.d
    /\ eResult.d["metrics"].d # EmptyDict
    /\ eResult.d["context"] = Dict(EmptyDict)

\* completion(...) has been called and has returned or raised
CallIssued == epc \in {"parse", "except", "done"}

\* C11: in every execution of extract_metrics the external model call is
\* issued exactly once and never retried; fallback_extraction runs at most
\* once, only after that call or the parsing of its reply has failed, and
\* never when the call and the parse succeed.
C11_CalledOnce ==
    /\ llmCalls <= 1
    /\ fallbackRuns <= 1
    /\ CallIssued => llmCalls = 1
    /\ fallbackRuns = 1 => (llmCalls = 1 /\ StructuredFailed)
    /\ (Returned /\ ~StructuredFailed) => fallbackRuns = 0

\* The call was issued once and raised, and the fallback then ran once
C11_Witness ==
    /\ Returned /\ IsRaise(llm)
    /\ llmCalls = 1 /\ fallbackRuns = 1

----------------------------------------------------------------------------
(* ast.literal_eval, src/utils.py:244, on the expressions written with       *)
(* integers, quoted strings without escapes or triple quotes, names, list,   *)
(* dict, set and parenthesized displays, subscripts, commas and spaces.  A parse step gives [ok, a, i]:  *)
(* the syntax node and the position after it.                                *)

PFail == [ok |-> FALSE]
POk(a, i) == [ok |-> TRUE, a |-> a, i |-> i]

IdentStart == LowerLetters \cup UpperLetters \cup {"_"}
IdentChar  == IdentStart \cup Digits

RECURSIVE PSkip(_, _)
PSkip(s, i) == IF i <= Len(s) /\ Ch(s, i) \in {" ", "\t"} THEN PSkip(s, i + 1) ELSE i

\* The character at i, "" past the end
At(s, i) == Slice(s, i, i)

\* The position of the first quote character q at or after i (0 when none)
ClosingOf(s, i, q) ==
    IF \E j \in i..Len(s) : Ch(s, j) = q
    THEN CHOOSE j \in i..Len(s) : Ch(s, j) = q /\ \A k \in i..(j - 1) : Ch(s, k) # q
    ELSE 0

RECURSIVE PExpr(_, _)
RECURSIVE PItems(_, _, _, _)
RECURSIVE PPairs(_, _, _, _)
RECURSIVE PTrailers(_, _)
RECURSIVE PSlices(_, _)

\* The parse steps are written as pairs: an operator that reads a part, and a
\* continuation that takes what was read.

\* After the expression r of a list: the closer, or "," and the closer, or
\* "," and more
ItemsAfter(s, r, closer, acc) ==
    IF ~r.ok THEN PFail
    ELSE LET n  == PSkip(s, r.i)
             a2 == Append(acc, r.a)
             n2 == PSkip(s, n + 1)
         IN  IF At(s, n) = closer
             THEN [ok |-> TRUE, a |-> a2, i |-> n + 1, comma |-> Len(a2) > 1]
             ELSE IF At(s, n) # "," THEN PFail
             ELSE IF At(s, n2) = closer
             THEN [ok |-> TRUE, a |-> a2, i |-> n2 + 1, comma |-> TRUE]
             ELSE PItems(s, n2, closer, a2)

\* expr ("," expr)* [","] up to the closer ("" is the end of the text);
\* acc holds the nodes read so far, the result also says whether a comma was read
PItems(s, i0, closer, acc) == ItemsAfter(s, PExpr(s, i0), closer, acc)

\* After the next key k of a dict display
PairsKey(s, k, acc) == IF ~k.ok THEN PFail ELSE PPairs(s, k.i, k.a, acc)

\* After the value v of a dict entry: "}", or "," and "}", or "," and a key
PairsValue(s, v, key, acc) ==
    IF ~v.ok THEN PFail
    ELSE LET n  == PSkip(s, v.i)
             a2 == Append(acc, <<key, v.a>>)
             n2 == PSkip(s, n + 1)
         IN  IF At(s, n) = "}" THEN POk([n |-> "dict", items |-> a2], n + 1)
             ELSE IF At(s, n) # "," THEN PFail
             ELSE IF At(s, n2) = "}" THEN POk([n |-> "dict", items |-> a2], n2 + 1)
             ELSE PairsKey(s, PExpr(s, n2), a2)

\* After a key: ":" value, then ("," key ":" value)* [","] "}"
PPairs(s, i0, key, acc) ==
    IF At(s, PSkip(s, i0)) # ":" THEN PFail
    ELSE PairsValue(s, PExpr(s, PSkip(s, i0) + 1), key, acc)

\* The position after an expression read, 0 when it failed
EndOf(s, r) == IF r.ok THEN PSkip(s, r.i) ELSE 0
\* An optional expression of a slice: the position after it, 0 on an error
PSlicePart(s, i0) ==
    IF At(s, PSkip(s, i0)) \in {":", ",", "]", ""} THEN PSkip(s, i0)
    ELSE EndOf(s, PExpr(s, PSkip(s, i0)))
\* [":" [expr]] that may end a slice, from position b
SliceStep(s, b) ==
    IF b = 0 THEN 0 ELSE IF At(s, b) # ":" THEN b ELSE PSlicePart(s, b + 1)
\* After the first part of a slice, which ends at a
SliceLower(s, i0, a) ==
    IF a = 0 THEN 0
    ELSE IF At(s, a) # ":" THEN (IF a = PSkip(s, i0) THEN 0 ELSE a)
    ELSE SliceStep(s, PSlicePart(s, a + 1))
\* One slice of a subscript: expr, or [expr] ":" [expr] [":" [expr]];
\* the position after it, 0 on a syntax error
PSlice(s, i0) == SliceLower(s, i0, PSlicePart(s, i0))

\* After a slice, which ends at e
SlicesAfter(s, e) ==
    IF e = 0 THEN 0
    ELSE IF At(s, e) = "]" THEN e + 1
    ELSE IF At(s, e) # "," THEN 0
    ELSE IF At(s, PSkip(s, e + 1)) = "]" THEN PSkip(s, e + 1) + 1
    ELSE PSlices(s, PSkip(s, e + 1))
\* slice ("," slice)* [","] "]": the position after the "]", 0 on a syntax error
PSlices(s, i0) == SlicesAfter(s, PSlice(s, i0))

\* After the slices of one subscript, which end at e
TrailerAfter(s, e) ==
    IF e = 0 THEN PFail ELSE PTrailers(s, POk([n |-> "subscript"], e))
\* The subscripts that follow a primary r
PTrailers(s, r) ==
    IF At(s, PSkip(s, r.i)) # "[" THEN r
    ELSE TrailerAfter(s, PSlices(s, PSkip(s, r.i) + 1))

\* A display of kind `node` from its items r
Display(node, r) ==
    IF ~r.ok THEN PFail
    ELSE IF node = "list" THEN POk([n |-> "list", elts |-> r.a], r.i)
    ELSE POk([n |-> "set", elts |-> r.a], r.i)

\* After the first expression k inside braces: a dict entry or a set element
BraceAfter(s, k) ==
    IF ~k.ok THEN PFail
    ELSE LET n2 == PSkip(s, k.i)
             n3 == PSkip(s, n2 + 1)
         IN  IF At(s, n2) = ":" THEN PPairs(s, k.i, k.a, <<>>)
             ELSE IF At(s, n2) = "}" THEN POk([n |-> "set", elts |-> <<k.a>>], n2 + 1)
             ELSE IF At(s, n2) # "," THEN PFail
             ELSE IF At(s, n3) = "}" THEN POk([n |-> "set", elts |-> <<k.a>>], n3 + 1)
             ELSE Display("set", PItems(s, n3, "}", <<k.a>>))

\* An integer literal from i
PInt(s, i) ==
    LET e   == DigitRunEnd(s, i)
        run == SubSeq(s, i, e - 1)
    IN  IF At(s, e) \in IdentStart THEN PFail
        ELSE IF Ch(run, 1) = "0" /\ DigitsVal(run) # 0 THEN PFail
        ELSE POk([n |-> "int", v |-> DigitsVal(run)], e)

RECURSIVE PStr(_, _, _)
\* String literals from the opening quote at i; adjacent literals are joined
PStr(s, i, acc) ==
    LET q == ClosingOf(s, i + 1, Ch(s, i))
        v == acc \o SubSeq(s, i + 1, q - 1)
    IN  IF q = 0 THEN PFail
        ELSE IF At(s, PSkip(s, q + 1)) \in {"'", "\""} THEN PStr(s, PSkip(s, q + 1), v)
        ELSE POk([n |-> "str", v |-> v], q + 1)

\* What stands between parentheses: a tuple when it holds a comma
Parenthesized(r) ==
    IF ~r.ok THEN PFail
    ELSE IF r.comma THEN POk([n |-> "tuple", elts |-> r.a], r.i)
    ELSE POk(r.a[1], r.i)

PAtomAt(s, i) ==
    LET c == At(s, i)
        n == PSkip(s, i + 1)
    IN  IF c \in Digits THEN PInt(s, i)
        ELSE IF c \in {"'", "\""} THEN PStr(s, i, "")
        ELSE IF c \in IdentStart
        THEN POk([n |-> "name", id |-> SubSeq(s, i, RunEnd(s, i, IdentChar) - 1)],
                 RunEnd(s, i, IdentChar))
        ELSE IF c = "["
        THEN IF At(s, n) = "]" THEN POk([n |-> "list", elts |-> <<>>], n + 1)
             ELSE Display("list", PItems(s, n, "]", <<>>))
        ELSE IF c = "("
        THEN IF At(s, n) = ")" THEN POk([n |-> "tuple", elts |-> <<>>], n + 1)
             ELSE Parenthesized(PItems(s, n, ")", <<>>))
        ELSE IF c = "{"
        THEN IF At(s, n) = "}" THEN POk([n |-> "dict", items |-> <<>>], n + 1)
             ELSE BraceAfter(s, PExpr(s, n))
        ELSE PFail

PAtom(s, i0) == PAtomAt(s, PSkip(s, i0))

\* A primary r and the subscripts after it
WithTrailers(s, r) == IF r.ok THEN PTrailers(s, r) ELSE PFail
PExpr(s, i) == WithTrailers(s, PAtom(s, i))

\* The whole text read as r: a tuple when it holds a comma
WholeText(s, r) ==
    IF ~r.ok \/ r.i # Len(s) + 2 THEN PFail
    ELSE IF r.comma THEN POk([n |-> "tuple", elts |-> r.a], r.i)
    ELSE POk(r.a[1], r.i)
\* ast.parse(s, mode='eval')
PyParse(s) == WholeText(s, PItems(s, 1, "", <<>>))

\* Python values of literal_eval: a dict and a set keep their entries as a
\* sequence in insertion order
Tuple(q)     == [t |-> "tuple", q |-> q]
PySet(q)     == [t |-> "set", q |-> q]
PyDict(q)    == [t |-> "pydict", q |-> q]

RECURSIVE Hashable(_)
Hashable(v) ==
    CASE v.t \in {"int", "str", "bool", "None"} -> TRUE
      [] v.t = "tuple" -> \A i \in 1..Len(v.q) : Hashable(v.q[i])
      [] OTHER -> FALSE

\* d[k] = v on the sequence of entries
PutEntry(q, k, v) ==
    IF \E i \in 1..Len(q) : q[i][1] = k
    THEN [i \in 1..Len(q) |-> IF q[i][1] = k THEN <<k, v>> ELSE q[i]]
    ELSE Append(q, <<k, v>>)
\* s.add(v)
AddElement(q, v) == IF \E i \in 1..Len(q) : q[i] = v THEN q ELSE Append(q, v)

RECURSIVE Convert(_)
RECURSIVE ConvertSeq(_, _)
RECURSIVE ConvertSet(_, _)
RECURSIVE ConvertDict(_, _)

SeqStep(v, rest, acc) == IF IsRaise(v) THEN v ELSE ConvertSeq(rest, Append(acc, v))
\* list(map(_convert, elts))
ConvertSeq(elts, acc) ==
    IF elts = <<>> THEN List(acc) ELSE SeqStep(Convert(Head(elts)), Tail(elts), acc)

SetStep(v, rest, acc) ==
    IF IsRaise(v) THEN v
    ELSE IF ~Hashable(v) THEN Raise("TypeError")
    ELSE ConvertSet(rest, AddElement(acc, v))
\* set(map(_convert, elts)): each element is converted, then hashed
ConvertSet(elts, acc) ==
    IF elts = <<>> THEN PySet(acc) ELSE SetStep(Convert(Head(elts)), Tail(elts), acc)

DictStepValue(k, v, rest, acc) ==
    IF IsRaise(v) THEN v
    ELSE IF ~Hashable(k) THEN Raise("TypeError")
    ELSE ConvertDict(rest, PutEntry(acc, k, v))
DictStepKey(k, item, rest, acc) ==
    IF IsRaise(k) THEN k ELSE DictStepValue(k, Convert(item[2]), rest, acc)
\* dict(zip(map(_convert, keys), map(_convert, values))): key and value of an
\* entry are converted, then the key is hashed
ConvertDict(items, acc) ==
    IF items = <<>> THEN PyDict(acc)
    ELSE DictStepKey(Convert(Head(items)[1]), Head(items), Tail(items), acc)

AsTuple(r) == IF IsRaise(r) THEN r ELSE Tuple(r.q)

\* literal_eval's _convert
Convert(a) ==
    CASE a.n = "int"  -> Num(a.v)
      [] a.n = "str"  -> Str(a.v)
      [] a.n = "name" ->
            IF a.id = "None" THEN None
            ELSE IF a.id = "True" THEN Bool(TRUE)
            ELSE IF a.id = "False" THEN Bool(FALSE)
            ELSE Raise("ValueError")
      [] a.n = "list"  -> ConvertSeq(a.elts, <<>>)
      [] a.n = "tuple" -> AsTuple(ConvertSeq(a.elts, <<>>))
      [] a.n = "set"   -> ConvertSet(a.elts, <<>>)
      [] a.n = "dict"  -> ConvertDict(a.items, <<>>)
      [] OTHER -> Raise("ValueError")

ConvertParsed(r) == IF r.ok THEN Convert(r.a) ELSE Raise("SyntaxError")
\* ast.literal_eval(s)
literal_eval(s) == ConvertParsed(PyParse(s))

----------------------------------------------------------------------------
(* string_to_dict, src/utils.py:241-247 *)

AgentPrefix == "Here is the final answer from your managed agent 'None':"

\* The try body
string_to_dict_body(s) == literal_eval(Strip(Replace(s, AgentPrefix, "")))

\* `except (SyntaxError, ValueError)`: print and return None; anything else
\* the body raised goes on to the caller
HandleParseOutcome(r) ==
    IF IsRaise(r) /\ r.exc \in {"SyntaxError", "ValueError"}
    THEN [result |-> None, logged |-> TRUE]
    ELSE [result |-> r, logged |-> FALSE]

\* The value returned or the exception raised, and whether the handler printed
string_to_dict(s) == HandleParseOutcome(string_to_dict_body(s))

----------------------------------------------------------------------------
(* The strings string_to_dict is called on *)

MaxStr == 4

LiteralAlphabet == {"{", "}", "[", "]", ":", ",", "1"}

SampleStrings ==
    {"Here is the final answer from your managed agent 'None': {'1. Task outcome (short version)': 'Strong year'}",
     "{'a': 'b'}", " {'a': [1, 2], 'b': None} ", "{[1]: 2}", "{'a': x}", "{'a': ",
     "Sorry, I cannot help.", "{{'a': 1}}", "{'a': 1}[0]", "None", "{'k': {[1, 2]}}",
     "{1: 1, 1: [1]}"}

ParseInputs == StringsUpTo(LiteralAlphabet, MaxStr) \cup SampleStrings

----------------------------------------------------------------------------
(* Specification of string_to_dict *)

InitParse ==
    /\ input_str \in ParseInputs
    /\ sResult = Pending
    /\ sLogged = FALSE
    /\ FloatIdle /\ TableIdle /\ ExtractIdle /\ FormatIdle

StoreOutcome(o) == sResult' = o.result /\ sLogged' = o.logged

CallStringToDict ==
    /\ sResult = Pending
    /\ StoreOutcome(string_to_dict(input_str))
    /\ UNCHANGED <<input_str, floatVars, tableVars, extractVars, formatVars>>

NextParse == CallStringToDict

SpecParse == InitParse /\ [][NextParse]_vars

----------------------------------------------------------------------------
(* Properties of string_to_dict *)

\* C8: string_to_dict never propagates a failure: for a string that is not a
\* well-formed serialized record (a syntax error, a non-literal expression, a
\* text that parses but cannot be built into a value) it logs and returns None
\* instead of raising.
C8_NeverPropagates ==
    sResult # Pending =>
        /\ ~IsRaise(sResult)
        /\ IsRaise(string_to_dict_body(input_str)) => (sResult = None /\ sLogged)

----------------------------------------------------------------------------
(* format_text_content, src/utils.py:381-434 *)

\* The line boundaries of str.splitlines() that the texts drawn below hold
LineBreaks == {"\n", "\r"}

RECURSIVE LineEnd(_, _)
\* The position of the first line break at or after i, Len(s) + 1 when none
LineEnd(s, i) ==
    IF i <= Len(s) /\ Ch(s, i) \notin LineBreaks THEN LineEnd(s, i + 1) ELSE i

RECURSIVE SplitLines(_)
\* The line that ends at e - 1 and the lines after its break ("\r\n" is one break)
SplitAt(s, e) ==
    IF e > Len(s) THEN <<s>>
    ELSE <<SubSeq(s, 1, e - 1)>> \o
         SplitLines(SubSeq(s, (IF Slice(s, e, e + 1) = "\r\n" THEN e + 2 ELSE e + 1), Len(s)))
\* str.splitlines()
SplitLines(s) == IF s = "" THEN <<>> ELSE SplitAt(s, LineEnd(s, 1))

\* str.startswith(prefix)
StartsWith(s, prefix) == Slice(s, 1, Len(prefix)) = prefix
\* s[i:] with i counted from 0
From(s, i) == Slice(s, i + 1, Len(s))

\* re.match(r"- ", line)
IsBullet(line) == StartsWith(line, "- ")
\* re.match(r"\d+\.", line)
IsNumbered(line) ==
    DigitRunEnd(line, 1) > 1 /\ Slice(line, DigitRunEnd(line, 1), DigitRunEnd(line, 1)) = "."

UlOpen  == "<ul class=\"context-list\">"
OlOpen  == "<ol class=\"context-list\">"
UlClose == "</ul>"
OlClose == "</ol>"
\* f"<li>{...}</li>"
Li(content) == "<li>" \o content \o "</li>"

\* `if in_ul: append("</ul>")` then `if in_ol: append("</ol>")`
Closers == (IF in_ul THEN <<UlClose>> ELSE <<>>) \o (IF in_ol THEN <<OlClose>> ELSE <<>>)

\* The line of the current pass of the loop, after line.strip()
line == Strip(Head(lines))
InLoop == fpc = "loop" /\ lines # <<>>

\* html_parts.append(...) for each of parts, all appended in the pass of `from`
AppendParts(parts, from) ==
    /\ html_parts' = html_parts \o parts
    /\ part_lines' = part_lines \o [i \in 1..Len(parts) |-> from]

\* The branch of the if/elif chain of lines 411-426 that a non-blank line takes
Branch(l) ==
    IF StartsWith(l, "### ") THEN "h4"
    ELSE IF StartsWith(l, "#### ") THEN "h5"
    ELSE IF IsBullet(l) THEN "bullet"
    ELSE IF IsNumbered(l) THEN "numbered"
    ELSE "p"

MaxLines == 3

LineSamples == {"- a", "1. b", "", "### T", "#### S", "p", " - c ", "12.d"}

RECURSIVE SeqsUpTo(_, _)
SeqsUpTo(S, n) ==
    IF n = 0 THEN {<<>>}
    ELSE LET shorter == SeqsUpTo(S, n - 1) IN
         shorter \cup {Append(q, x) : q \in shorter, x \in S}

SampleTexts == {"  ", "- a\r\n- b\r\n", "intro\n\n1. x\n2. y\n- z\n\nend"}

Texts == {Join("\n", q) : q \in SeqsUpTo(LineSamples, MaxLines)} \cup SampleTexts

----------------------------------------------------------------------------
(* Specification of format_text_content *)

InitFormat ==
    /\ text \in Texts
    /\ fpc = "start"
    /\ lines = <<>> /\ in_ul = FALSE /\ in_ol = FALSE
    /\ html_parts = <<>> /\ part_lines = <<>> /\ fResult = Pending
    /\ FloatIdle /\ TableIdle /\ ExtractIdle /\ ParseIdle

\* `if not text: return "<p>No content available.</p>"`
ReturnNoContent ==
    /\ fpc = "start" /\ text = ""
    /\ fResult' = Str("<p>No content available.</p>")
    /\ fpc' = "done"
    /\ UNCHANGED <<text, lines, in_ul, in_ol, html_parts, part_lines, floatVars, tableVars,
                   extractVars, parseVars>>

\* lines = text.strip().splitlines()
SplitText ==
    /\ fpc = "start" /\ text # ""
    /\ lines' = SplitLines(Strip(text))
    /\ fpc' = "loop"
    /\ UNCHANGED <<text, in_ul, in_ol, html_parts, part_lines, fResult, floatVars, tableVars,
                   extractVars, parseVars>>

\* A blank line closes the open lists: lines 401-409
BlankLine ==
    /\ InLoop /\ line = ""
    /\ AppendParts(Closers, line)
    /\ in_ul' = FALSE /\ in_ol' = FALSE
    /\ lines' = Tail(lines)
    /\ UNCHANGED <<text, fpc, fResult, floatVars, tableVars, extractVars, parseVars>>

\* Lines 411-412
Heading4 ==
    /\ InLoop /\ line # "" /\ Branch(line) = "h4"
    /\ AppendParts(<<"<h4>" \o Strip(From(line, 4)) \o "</h4>">>, line)
    /\ lines' = Tail(lines)
    /\ UNCHANGED <<text, fpc, in_ul, in_ol, fResult, floatVars, tableVars, extractVars,
                   parseVars>>

\* Lines 413-414
Heading5 ==
    /\ InLoop /\ line # "" /\ Branch(line) = "h5"
    /\ AppendParts(<<"<h5>" \o Strip(From(line, 5)) \o "</h5>">>, line)
    /\ lines' = Tail(lines)
    /\ UNCHANGED <<text, fpc, in_ul, in_ol, fResult, floatVars, tableVars, extractVars,
                   parseVars>>

\* Lines 415-419
BulletLine ==
    /\ InLoop /\ line # "" /\ Branch(line) = "bullet"
    /\ AppendParts((IF in_ul THEN <<>> ELSE <<UlOpen>>) \o <<Li(Strip(From(line, 2)))>>, line)
    /\ in_ul' = TRUE
    /\ lines' = Tail(lines)
    /\ UNCHANGED <<text, fpc, in_ol, fResult, floatVars, tableVars, extractVars, parseVars>>

\* Lines 420-424; line.find('.') + 1 is Find(".", line) counted from 0
NumberedLine ==
    /\ InLoop /\ line # "" /\ Branch(line) = "numbered"
    /\ AppendParts((IF in_ol THEN <<>> ELSE <<OlOpen>>)
                       \o <<Li(Strip(From(line, Find(".", line))))>>, line)
    /\ in_ol' = TRUE
    /\ lines' = Tail(lines)
    /\ UNCHANGED <<text, fpc, in_ul, fResult, floatVars, tableVars, extractVars, parseVars>>

\* Lines 425-426
Paragraph ==
    /\ InLoop /\ line # "" /\ Branch(line) = "p"
    /\ AppendParts(<<"<p>" \o line \o "</p>">>, line)
    /\ lines' = Tail(lines)
    /\ UNCHANGED <<text, fpc, in_ul, in_ol, fResult, floatVars, tableVars, extractVars,
                   parseVars>>

\* After the loop: lines 428-434
CloseAndReturn ==
    /\ fpc = "loop" /\ lines = <<>>
    /\ AppendParts(Closers, "")
    /\ fResult' = Str(Join("\n", html_parts \o Closers))
    /\ fpc' = "done"
    /\ UNCHANGED <<text, lines, in_ul, in_ol, floatVars, tableVars, extractVars, parseVars>>

NextFormat ==
    \/ ReturnNoContent
    \/ SplitText
    \/ BlankLine
    \/ Heading4
    \/ Heading5
    \/ BulletLine
    \/ NumberedLine
    \/ Paragraph
    \/ CloseAndReturn

SpecFormat == InitFormat /\ [][NextFormat]_vars

----------------------------------------------------------------------------
(* Properties of format_text_content *)

\* The list tag an element of html_parts is: "ul", "ol" for the opening
\* tags, "/ul", "/ol" for the closing ones, "li" for an item
TagOf(part) ==
    IF part = UlOpen THEN "ul"
    ELSE IF part = OlOpen THEN "ol"
    ELSE IF part = UlClose THEN "/ul"
    ELSE IF part = OlClose THEN "/ol"
    ELSE IF StartsWith(part, "<li>") THEN "li"
    ELSE "other"

\* The list type of the line that produced an item
OwnList(l) == IF IsBullet(l) THEN "ul" ELSE "ol"

RECURSIVE ListsWellFormed(_, _, _, _)
\* Reads parts from i with the lists open so far (innermost last): a list is
\* opened only when none is open, a closing tag closes the innermost open list,
\* an item lies in the list type of its own line, and no list is left open
ListsWellFormed(parts, from, i, open) ==
    IF i > Len(parts) THEN open = <<>>
    ELSE LET tag == TagOf(parts[i]) IN
         CASE tag \in {"ul", "ol"} ->
                  open = <<>> /\ ListsWellFormed(parts, from, i + 1, <<tag>>)
           [] tag \in {"/ul", "/ol"} ->
                  /\ open # <<>>
                  /\ "/" \o open[Len(open)] = tag
                  /\ ListsWellFormed(parts, from, i + 1, SubSeq(open, 1, Len(open) - 1))
           [] tag = "li" ->
                  /\ open # <<>>
                  /\ open[Len(open)] = OwnList(from[i])
                  /\ ListsWellFormed(parts, from, i + 1, open)
           [] OTHER -> ListsWellFormed(parts, from, i + 1, open)

\* C12: for every sequence of input lines the HTML of format_text_content has
\* well-formed list markup: every opened <ul>/<ol> is closed exactly once, an
\* <ol> is never opened while a <ul> is still open (and vice versa), closing
\* tags come in reverse order of their opening tags, and every <li> lies
\* inside the list type of its own line.
C12_ListMarkupWellFormed ==
    fpc = "done" => ListsWellFormed(html_parts, part_lines, 1, <<>>)

====
